---------------------------- MODULE Spec2Model ----------------------------
(***************************************************************************)
(* MateMaTeX 2.0: the generation pipeline as seen from the web front end,   *)
(* and the components around it.                                           *)
(*                                                                         *)
(* The front end (zustand store, API client, wizard, home page, result     *)
(* view, LaTeX editor, middleware, auth callback, ConditionalShell) and    *)
(* the row level security policies are translated from the sources.  The   *)
(* pipeline engine, the Agent-Output Cache and the Model Gateway run in    *)
(* the Python backend, which is not among the sources; they are modelled   *)
(* from the specification (sections 3 to 7) and from                       *)
(* MateMaTeX-Fase2-Prompt.md.                                              *)
(*                                                                         *)
(* Each component has its own variables and its own specification (Spec,   *)
(* SpecClose, SpecNav, SpecDb, SpecCache, SpecGateway, SpecEditor,         *)
(* SpecEditing, SpecUpdatePassword, SpecShared, SpecBank, SpecScripts,     *)
(* SpecTheme); the variables of the other components stay at their         *)
(* initial values.                                                         *)
(***************************************************************************)
EXTENDS Naturals, Sequences, FiniteSets

VARIABLES
    store,      \* the zustand store (useAppStore)
    pc,         \* position of GenerationWizard.handleGenerate
    es,         \* the EventSource of streamProgress: "none" | "open" | "closed"
    cursor,     \* number of events of the stream dispatched to the listeners
    pending,    \* the `data` captured by onComplete while it awaits getResult
    calls,      \* the callbacks streamProgress has invoked on this EventSource
    job,        \* backend: the Pipeline State of the current job
    stream,     \* backend: the events written to /generate/{job}/stream
    nav,        \* a browser navigation through the middleware and the routes
    db,         \* the database tables under row level security
    cache,      \* backend: the Agent-Output Cache
    gw,         \* backend: the Model Gateway and its attempt log
    ed,         \* the LatexEditor component: its state, timer and requests
    up,         \* the update-password page
    sh,         \* the shared-resource page
    bank,       \* the exercise bank page
    mig,        \* a database on which a schema script is being executed
    theme       \* the theme: <html> class, localStorage and the two toggles

vars ==
    <<store, pc, es, cursor, pending, calls, job, stream, nav, db, cache, gw,
      ed, up, sh, bank, mig, theme>>

\* the generation flow (wizard, stream, store, engine)
gen == <<store, pc, es, cursor, pending, calls, job, stream>>

\* the components beside the generation flow, and what each leaves alone
pages == <<up, sh, bank, mig, theme>>
side == <<nav, db, cache, gw, ed, pages>>
besideNav == <<gen, db, cache, gw, ed, pages>>
besideDb == <<gen, nav, cache, gw, ed, pages>>
besideCache == <<gen, nav, db, gw, ed, pages>>
besideGw == <<gen, nav, db, cache, ed, pages>>
besideEd == <<gen, nav, db, cache, gw, pages>>
besideUp == <<gen, nav, db, cache, gw, ed, sh, bank, mig, theme>>
besideSh == <<gen, nav, db, cache, gw, ed, up, bank, mig, theme>>
besideBank == <<gen, nav, db, cache, gw, ed, up, sh, mig, theme>>
besideMig == <<gen, nav, db, cache, gw, ed, up, sh, bank, theme>>
besideTheme == <<gen, nav, db, cache, gw, ed, up, sh, bank, mig>>

---------------------------------------------------------------------------
(* Bounds and program constants                                            *)

\* retry ceiling of a repair-capable node ("maks 3 iterasjoner", "Forsøk n/3")
Ceiling == 3

\* a quality or layout pass may still rewrite the mathematical content while
\* the step log of the job is shorter than this
MaxLog == 7

\* how many written events may wait for dispatch before the backend's next
\* write to the stream blocks
MaxAhead == 1

\* how many redirects of one kind a browser follows in one navigation
MaxHops == 3

\* how many rows the database holds
MaxRows == 2

\* capacity of the Agent-Output Cache
MaxEntries == 2

\* how many calls of the Model Gateway are followed
MaxCalls == 3

\* how many times the text in the editor is changed
MaxEdits == 2

\* similarity threshold of near-duplicate matching, in percent (">90% lik")
Threshold == 90

---------------------------------------------------------------------------
(* Documents, the CAS verifier and the compiler adapter                    *)

\* Document sources the authoring agents may produce.  A source is known
\* here by its mathematical claims and by whether it typesets.
GenDocs == {"ok", "wrong", "broken", "unv"}

\* What the LaTeX editor may hold: any of these, or the empty string.
EditDocs == GenDocs \cup {""}

\* Claim Extractor & CAS Verifier: the ledger of a source, one verdict per
\* extracted claim.  Deterministic, side-effect free.
Verify(doc) ==
    CASE doc = "ok"          -> <<"correct">>
      [] doc = "wrong"       -> <<"correct", "incorrect">>
      [] doc = "broken"      -> <<"correct">>
      [] doc = "unv"         -> <<"correct", "unverifiable">>
      [] OTHER               -> <<>>

\* Document Compiler Adapter: the (line, message) errors of a source.
Compile(doc) ==
    IF doc = "broken"
    THEN <<[line |-> 1, message |-> "Missing } inserted"]>>
    ELSE <<>>

Count(ledger, verdict) ==
    Cardinality({i \in 1..Len(ledger) : ledger[i] = verdict})

HasIncorrect(ledger) == Count(ledger, "incorrect") > 0

---------------------------------------------------------------------------
(* The store: part_011 (lib/store.ts)                                      *)

Null == [null |-> TRUE]
NoAgent == "null"

DEFAULT_REQUEST == [topic |-> ""]

InitialStore ==
    [ request         |-> DEFAULT_REQUEST,
      isGenerating    |-> FALSE,
      currentAgent    |-> NoAgent,
      steps           |-> <<>>,
      result          |-> Null,
      showLatexEditor |-> FALSE ]

setRequest(s, topic) == [s EXCEPT !.request = [@ EXCEPT !.topic = topic]]

resetRequest(s) == [s EXCEPT !.request = DEFAULT_REQUEST]

startGeneration(s) ==
    [s EXCEPT !.isGenerating = TRUE, !.currentAgent = NoAgent,
              !.steps = <<>>, !.result = Null]

addStep_prepends(s, step) == [s EXCEPT !.steps = <<step>> \o @]

addStep(s, step) == [s EXCEPT !.steps = Append(@, step)]

setCurrentAgent(s, agent) == [s EXCEPT !.currentAgent = agent]

setResult_staysGenerating(s, result) ==
    [s EXCEPT !.result = result, !.currentAgent = NoAgent]

setResult(s, result) ==
    [s EXCEPT !.result = result, !.isGenerating = FALSE,
              !.currentAgent = NoAgent]

FailedResult(status, error) ==
    [ jobId            |-> "",
      status           |-> status,
      fullDocument     |-> "",
      pdfUrl           |-> "",
      steps            |-> <<>>,
      mathVerification |-> [claimsChecked |-> 0, claimsCorrect |-> 0,
                            claimsIncorrect |-> 0, allCorrect |-> FALSE],
      latexCompiled    |-> FALSE,
      error            |-> error ]

setError_statusRunning(s, error) ==
    [s EXCEPT !.result = FailedResult("running", error),
              !.isGenerating = FALSE]

setError(s, error) ==
    [s EXCEPT !.result = FailedResult("failed", error),
              !.isGenerating = FALSE]

toggleLatexEditor(s) == [s EXCEPT !.showLatexEditor = ~@]

---------------------------------------------------------------------------
(* Which view the home page renders: frontend/src/app/layout.tsx           *)

EditorShown(s) ==
    s.showLatexEditor /\ s.result # Null /\ s.result.fullDocument # ""

WizardShown(s) == ~EditorShown(s) /\ ~s.isGenerating /\ s.result = Null

ProgressShown(s) == ~EditorShown(s) /\ s.isGenerating

ResultShown(s) == ~EditorShown(s) /\ ~s.isGenerating /\ s.result # Null

\* PipelineProgress: the order in which the progress view lists the stages
PIPELINE_ORDER ==
    << "pedagogue", "author", "math_verifier", "editor", "latex_validator" >>

\* PipelineProgress: what the progress view renders for one agent of
\* PIPELINE_ORDER: the icon of its node, the n of the badge "Forsøk n/3"
\* (0: no badge) and the error line under it ("": none)
PipelineProgress(s, agentKey) ==
    LET found == {i \in 1..Len(s.steps) : s.steps[i].agent = agentKey}
        isCompleted == found # {}
        isCurrent == s.currentAgent = agentKey
        \* steps.find: the first record of the agent
        first == CHOOSE i \in found : \A j \in found : i <= j
        hasError == isCompleted /\ s.steps[first].error # ""
        retryCount == IF isCompleted THEN s.steps[first].retries ELSE 0
    IN [ icon    |-> IF isCompleted THEN "check"
                     ELSE IF isCurrent
                     THEN IF hasError THEN "alert" ELSE "spinner"
                     ELSE "circle",
         attempt |-> IF retryCount > 0 THEN retryCount + 1 ELSE 0,
         error   |-> IF hasError /\ isCurrent THEN s.steps[first].error
                     ELSE "" ]

---------------------------------------------------------------------------
(* Backend: the Pipeline Graph Engine (specification 3, 4.1, 5, 7)         *)

Terminal == {"completed", "failed"}

RepairNodes == {"Draft", "CompileFix"}

NoJob ==
    [ status        |-> "none",
      stage         |-> "none",
      source        |-> "",
      ledger        |-> <<>>,
      compileErrors |-> <<>>,
      compiled      |-> FALSE,
      retries       |-> [Draft |-> 0, CompileFix |-> 0],
      reason        |-> "" ]

\* start(request): the initial Pipeline State
NewJob == [NoJob EXCEPT !.status = "running", !.stage = "Plan"]

NoData ==
    [ status |-> "", math_checks |-> 0, math_correct |-> 0,
      latex_compiled |-> FALSE, error |-> "" ]

\* A Step Record as the front end receives it (AgentStep)
StepRecord(agent, error, retries) ==
    [agent |-> agent, error |-> error, retries |-> retries]

Event(type, agent, error, retries, data) ==
    [type |-> type, agent |-> agent, error |-> error, retries |-> retries,
     data |-> data]

\* One agent invocation: the agent becomes current, then its record is logged
StageEvents(agent, error, retries) ==
    << Event("current_agent", agent, "", 0, NoData),
       Event("step", agent, error, retries, NoData) >>

\* Payload of the terminal event.  math_checks counts the claims the CAS
\* could decide; a malformed fragment is not a checked claim.
CompleteData(j) ==
    [ status         |-> j.status,
      math_checks    |-> Count(j.ledger, "correct") + Count(j.ledger, "incorrect"),
      math_correct   |-> Count(j.ledger, "correct"),
      latex_compiled |-> j.compiled,
      error          |-> j.reason ]

TerminalEvents(j) ==
    IF j.status \in Terminal
    THEN << Event("complete", "", "", 0, CompleteData(j)) >>
    ELSE << >>

\* The step log of the Pipeline State: the records written so far
IsStep(e) == e.type = "step"
Log == SelectSeq(stream, IsStep)

Exhausted(node) == IF node = "Draft" THEN "retry_budget_exhausted:Draft"
                   ELSE "retry_budget_exhausted:CompileFix"

Fail(j, reason) == [j EXCEPT !.status = "failed", !.reason = reason]

\* A stage hands the state on and appends its records to the stream
Advance(j, events) ==
    /\ Len(stream) - cursor < MaxAhead
    /\ job' = j
    /\ stream' = stream \o events \o TerminalEvents(j)
    /\ UNCHANGED <<store, pc, es, cursor, pending, calls, side>>

Running(stage) == job.status = "running" /\ job.stage = stage

Plan ==
    /\ Running("Plan")
    /\ Advance([job EXCEPT !.stage = "Draft"],
               StageEvents("pedagogue", "", 0))

\* Draft, first pass or repair: regenerates the whole document
Draft ==
    /\ Running("Draft")
    /\ \E d \in GenDocs :
         Advance([job EXCEPT !.source = d, !.stage = "MathVerify"],
                 StageEvents("author", "", job.retries.Draft))

\* The repair edge of a failed check: one unit of the node's budget is
\* consumed before the repair node runs; with the budget used up the job fails.
Repair_oneTooMany(j, node) ==
    IF j.retries[node] <= Ceiling
    THEN [j EXCEPT !.retries[node] = @ + 1, !.stage = node]
    ELSE Fail(j, Exhausted(node))

Repair(j, node) ==
    IF j.retries[node] < Ceiling
    THEN [j EXCEPT !.retries[node] = @ + 1, !.stage = node]
    ELSE Fail(j, Exhausted(node))

MathVerify ==
    /\ Running("MathVerify")
    /\ LET ledger == Verify(job.source)
           j == [job EXCEPT !.ledger = ledger]
       IN IF HasIncorrect(ledger)
          THEN Advance(Repair(j, "Draft"),
                       StageEvents("math_verifier", "incorrect claim",
                                   job.retries.Draft))
          ELSE Advance([j EXCEPT !.stage = "CompileCheck"],
                       StageEvents("math_verifier", "", job.retries.Draft))

CompileCheck ==
    /\ Running("CompileCheck")
    /\ LET errors == Compile(job.source)
           j == [job EXCEPT !.compileErrors = errors,
                            !.compiled = (errors = <<>>)]
       IN IF errors # <<>>
          THEN Advance(Repair(j, "CompileFix"),
                       StageEvents("latex_validator", errors[1].message,
                                   job.retries.CompileFix))
          ELSE Advance([j EXCEPT !.stage = "QualityPass"],
                       StageEvents("latex_validator", "",
                                   job.retries.CompileFix))

CompileFix_straightOn ==
    /\ Running("CompileFix")
    /\ \E d \in GenDocs :
         /\ Verify(d) = Verify(job.source)
         /\ Advance([job EXCEPT !.source = d, !.stage = "QualityPass"],
                    StageEvents("latex_fixer", "", job.retries.CompileFix))

\* CompileFix rewrites the regions the compiler complained about; the
\* mathematical content (the claims) is the one that was verified.
CompileFix ==
    /\ Running("CompileFix")
    /\ \E d \in GenDocs :
         /\ Verify(d) = Verify(job.source)
         /\ Advance([job EXCEPT !.source = d, !.stage = "CompileCheck"],
                    StageEvents("latex_fixer", "", job.retries.CompileFix))

\* A non-repairing pass.  If it alters the mathematical content it
\* re-enters verification; otherwise control moves on.
Pass(agent, next) ==
    \/ Advance(IF next = "DONE"
               THEN [job EXCEPT !.stage = "DONE", !.status = "completed"]
               ELSE [job EXCEPT !.stage = next],
               StageEvents(agent, "", 0))
    \/ /\ Len(Log) < MaxLog
       /\ \E d \in GenDocs :
            /\ d # job.source
            /\ Advance([job EXCEPT !.source = d, !.stage = "MathVerify"],
                       StageEvents(agent, "", 0))

QualityPass == Running("QualityPass") /\ Pass("editor", "LayoutPass")

LayoutPass == Running("LayoutPass") /\ Pass("layout", "DONE")

\* Cancellation, checked at a stage boundary
Cancel ==
    /\ job.status = "running"
    /\ Advance(Fail(job, "cancelled"), << >>)

Engine ==
    \/ Plan \/ Draft \/ MathVerify \/ CompileCheck \/ CompileFix
    \/ QualityPass \/ LayoutPass \/ Cancel

---------------------------------------------------------------------------
(* Front end: GenerationWizard.handleGenerate, streamProgress, getResult,  *)
(* HomePage and ResultView                                                 *)

Topics == {"", "algebra"}

\* the wizard's topic field (setRequest({ topic }))
SetTopic ==
    /\ WizardShown(store)
    /\ \E t \in Topics : t # store.request.topic /\ store' = setRequest(store, t)
    /\ UNCHANGED <<pc, es, cursor, pending, calls, job, stream, side>>

canGenerate(s) == s.request.topic # ""

\* handleGenerate up to its first await: the POST /generate is in flight
HandleGenerate ==
    /\ WizardShown(store)
    /\ canGenerate(store)
    /\ store' = startGeneration(store)
    /\ pc' = "awaitStart"
    /\ UNCHANGED <<es, cursor, pending, calls, job, stream, side>>

\* err.message || "Noe gikk galt"
ErrorText(message) == IF message = "" THEN "Noe gikk galt" ELSE message

\* startGeneration (api) throws: the catch branch of handleGenerate
PostFails ==
    /\ pc = "awaitStart"
    /\ \E m \in {"", "Generation failed: Bad Gateway"} :
         store' = setError(store, ErrorText(m))
    /\ pc' = "idle"
    /\ UNCHANGED <<es, cursor, pending, calls, job, stream, side>>

\* POST /generate answers with a job id: the backend starts the job and
\* streamProgress opens an EventSource on the job's stream
PostOK ==
    /\ pc = "awaitStart"
    /\ job' = NewJob
    /\ stream' = << >>
    /\ es' = "open"
    /\ cursor' = 0
    /\ calls' = << >>
    /\ pc' = "streaming"
    /\ UNCHANGED <<store, pending, side>>

\* the next event of the stream, while the EventSource is open
HasEvent(type) ==
    /\ es = "open"
    /\ cursor < Len(stream)
    /\ stream[cursor + 1].type = type

NextEvent == stream[cursor + 1]

\* eventSource.addEventListener("step", ...)
OnStepEvent ==
    /\ HasEvent("step")
    /\ store' = addStep(store, StepRecord(NextEvent.agent, NextEvent.error,
                                          NextEvent.retries))
    /\ cursor' = cursor + 1
    /\ calls' = Append(calls, "onStep")
    /\ UNCHANGED <<pc, es, pending, job, stream, side>>

\* eventSource.addEventListener("current_agent", ...)
OnCurrentAgentEvent ==
    /\ HasEvent("current_agent")
    /\ store' = setCurrentAgent(store, NextEvent.agent)
    /\ cursor' = cursor + 1
    /\ calls' = Append(calls, "onCurrentAgent")
    /\ UNCHANGED <<pc, es, pending, job, stream, side>>

OnCompleteEvent_staysOpen ==
    /\ HasEvent("complete")
    /\ pending' = NextEvent.data
    /\ pc' = "awaitResult"
    /\ cursor' = cursor + 1
    /\ calls' = Append(calls, "onComplete")
    /\ UNCHANGED <<store, es, job, stream, side>>

\* eventSource.addEventListener("complete", ...): onComplete runs up to its
\* await of getResult, then the EventSource is closed
OnCompleteEvent ==
    /\ HasEvent("complete")
    /\ pending' = NextEvent.data
    /\ pc' = "awaitResult"
    /\ cursor' = cursor + 1
    /\ calls' = Append(calls, "onComplete")
    /\ es' = "closed"
    /\ UNCHANGED <<store, job, stream, side>>

\* eventSource.addEventListener("error", ...): the connection is lost
OnErrorEvent ==
    /\ es = "open"
    /\ store' = setError(store, "Connection lost")
    /\ calls' = Append(calls, "onError")
    /\ es' = "closed"
    /\ pc' = IF pc = "streaming" THEN "idle" ELSE pc
    /\ UNCHANGED <<cursor, pending, job, stream, side>>

\* GET /generate/{job}/result
JobResult ==
    [ full_document |-> job.source,
      pdf_path      |-> IF job.compiled THEN "output.pdf" ELSE "",
      steps         |-> [i \in 1..Len(Log) |->
                           StepRecord(Log[i].agent, Log[i].error, Log[i].retries)] ]

CompletedResult_countsChecks(data, res) ==
    [ jobId            |-> "job",
      status           |-> data.status,
      fullDocument     |-> res.full_document,
      pdfUrl           |-> res.pdf_path,
      steps            |-> res.steps,
      mathVerification |->
          [ claimsChecked   |-> data.math_checks,
            claimsCorrect   |-> data.math_correct,
            claimsIncorrect |-> data.math_checks,
            allCorrect      |-> data.math_checks = data.math_correct ],
      latexCompiled    |-> data.latex_compiled,
      error            |-> data.error ]

\* the GenerationResult onComplete builds from the event and the result
CompletedResult(data, res) ==
    [ jobId            |-> "job",
      status           |-> data.status,
      fullDocument     |-> res.full_document,
      pdfUrl           |-> res.pdf_path,
      steps            |-> res.steps,
      mathVerification |->
          [ claimsChecked   |-> data.math_checks,
            claimsCorrect   |-> data.math_correct,
            claimsIncorrect |-> data.math_checks - data.math_correct,
            allCorrect      |-> data.math_checks = data.math_correct ],
      latexCompiled    |-> data.latex_compiled,
      error            |-> data.error ]

\* onComplete after its await: getResult answered
GetResultOK ==
    /\ pc = "awaitResult"
    /\ store' = setResult(store, CompletedResult(pending, JobResult))
    /\ pc' = "idle"
    /\ pending' = NoData
    /\ UNCHANGED <<es, cursor, calls, job, stream, side>>

\* getResult throws: onComplete's promise rejects, nobody handles it
GetResultFails ==
    /\ pc = "awaitResult"
    /\ pc' = "idle"
    /\ pending' = NoData
    /\ UNCHANGED <<store, es, cursor, calls, job, stream, side>>

\* ResultView, "Ny generering"
NewGeneration ==
    /\ ResultShown(store)
    /\ store' = resetRequest(setResult(store, Null))
    /\ UNCHANGED <<pc, es, cursor, pending, calls, job, stream, side>>

\* ResultView, "Åpne editor" / "Rediger" (rendered for a completed result)
OpenEditor ==
    /\ ResultShown(store)
    /\ store.result.status = "completed"
    /\ store' = toggleLatexEditor(store)
    /\ UNCHANGED <<pc, es, cursor, pending, calls, job, stream, side>>

\* HomePage, LatexEditor onClose
CloseEditor ==
    /\ EditorShown(store)
    /\ store' = toggleLatexEditor(store)
    /\ UNCHANGED <<pc, es, cursor, pending, calls, job, stream, side>>

\* HomePage, LatexEditor onSave
saveContent(s, content) ==
    setResult(s, [s.result EXCEPT !.fullDocument = content])

EditorSave ==
    /\ EditorShown(store)
    /\ \E content \in EditDocs : store' = saveContent(store, content)
    /\ UNCHANGED <<pc, es, cursor, pending, calls, job, stream, side>>

\* the function streamProgress returns: () => eventSource.close()
CloseStream ==
    /\ es = "open"
    /\ es' = "closed"
    /\ calls' = Append(calls, "close")
    /\ UNCHANGED <<store, pc, cursor, pending, job, stream, side>>

---------------------------------------------------------------------------
(* Routing: frontend/src/middleware.ts, the auth callback route (part_001) *)
(* and ConditionalShell (part_008).  A pathname is its sequence of         *)
(* characters, so that startsWith is the prefix test the code performs.    *)

\* the path literals of the three files
ROOT == <<"/">>
LOGIN == <<"/", "l", "o", "g", "i", "n">>
REGISTER == <<"/", "r", "e", "g", "i", "s", "t", "e", "r">>
AUTH == <<"/", "a", "u", "t", "h">>
AUTH_CALLBACK == <<"/", "a", "u", "t", "h", "/", "c", "a", "l", "l", "b", "a", "c", "k">>
SHARED == <<"/", "s", "h", "a", "r", "e", "d">>
RESET_PASSWORD == <<"/", "r", "e", "s", "e", "t", "-", "p", "a", "s", "s", "w", "o", "r", "d">>
UPDATE_PASSWORD == <<"/", "u", "p", "d", "a", "t", "e", "-", "p", "a", "s", "s", "w", "o", "r", "d">>

\* String.prototype.startsWith
startsWith(s, p) == Len(p) <= Len(s) /\ SubSeq(s, 1, Len(p)) = p

\* middleware.ts: Public paths that don't require authentication
publicPaths_withRoot ==
    << LOGIN, REGISTER, AUTH_CALLBACK, SHARED, RESET_PASSWORD, UPDATE_PASSWORD,
       ROOT >>

publicPaths_loginPrivate ==
    << REGISTER, AUTH_CALLBACK, SHARED, RESET_PASSWORD, UPDATE_PASSWORD >>

publicPaths ==
    << LOGIN, REGISTER, AUTH_CALLBACK, SHARED, RESET_PASSWORD, UPDATE_PASSWORD >>

isPublic(pathname) ==
    \E i \in 1..Len(publicPaths) : startsWith(pathname, publicPaths[i])

\* middleware(request): `configured` is the presence of the two Supabase
\* environment variables, `user` whether getUser() finds a session
middleware(configured, user, pathname) ==
    LET redirect(to) == [kind |-> "redirect", to |-> to]
        response     == [kind |-> "next", to |-> << >>]
    IN IF ~configured THEN response
       ELSE IF ~user /\ ~isPublic(pathname) THEN redirect(LOGIN)
       ELSE IF user /\ (pathname = LOGIN \/ pathname = REGISTER)
            THEN redirect(ROOT)
       ELSE response

\* config.matcher: "/((?!_next/static|_next/image|favicon.ico|api/).*)";
\* in a pattern "." stands for any character
matcher(pathname) ==
    LET lookahead ==
          << <<"_", "n", "e", "x", "t", "/", "s", "t", "a", "t", "i", "c">>,
             <<"_", "n", "e", "x", "t", "/", "i", "m", "a", "g", "e">>,
             <<"f", "a", "v", "i", "c", "o", "n", ".", "i", "c", "o">>,
             <<"a", "p", "i", "/">> >>
        matchesAt(s, pattern) ==
          /\ Len(pattern) <= Len(s)
          /\ \A i \in 1..Len(pattern) : pattern[i] = "." \/ pattern[i] = s[i]
    IN /\ Len(pathname) >= 1
       /\ pathname[1] = "/"
       /\ ~ \E i \in 1..Len(lookahead) : matchesAt(Tail(pathname), lookahead[i])

\* ConditionalShell: TRUE when the children are wrapped in the AppShell
ConditionalShell(pathname) ==
    LET shellPaths == << LOGIN, REGISTER, AUTH >>
        isPublicPath ==
            \E i \in 1..Len(shellPaths) : startsWith(pathname, shellPaths[i])
        isShared == startsWith(pathname, SHARED)
    IN ~(isPublicPath \/ isShared)

\* auth callback, GET: the redirect it answers with, and whether a session
\* was established.  The cases: an error parameter, no code, the exchange
\* reporting an error, the exchange throwing, success.
GET(case) ==
    IF case = "ok"
    THEN [to |-> ROOT, search |-> "", session |-> TRUE]
    ELSE [to |-> LOGIN, search |-> "error", session |-> FALSE]

SETTINGS == <<"/", "s", "e", "t", "t", "i", "n", "g", "s">>

\* the pathnames a browser asks for: the literals, /logins, /shared/t1,
\* /settings, /exercises, /api/keep-alive and /favicon.ico
Pathnames ==
    { ROOT, LOGIN, REGISTER, AUTH_CALLBACK, SHARED, RESET_PASSWORD,
      UPDATE_PASSWORD, SETTINGS,
      <<"/", "l", "o", "g", "i", "n", "s">>,
      <<"/", "s", "h", "a", "r", "e", "d", "/", "t", "1">>,
      <<"/", "e", "x", "e", "r", "c", "i", "s", "e", "s">>,
      <<"/", "a", "p", "i", "/", "k", "e", "e", "p", "-", "a", "l", "i", "v", "e">>,
      <<"/", "f", "a", "v", "i", "c", "o", "n", ".", "i", "c", "o">> }

NavStart(configured, user) ==
    [ configured |-> configured,   \* Supabase environment present
      user       |-> user,         \* a session exists
      phase      |-> "idle",       \* idle | request | route | served
      pathname   |-> ROOT,
      search     |-> "",
      start      |-> ROOT,         \* the pathname the navigation began with
      startUser  |-> user,
      asked      |-> ROOT,         \* the request the middleware last answered
      askedUser  |-> user,
      answer     |-> "none",       \* none | next | redirect
      mwRedirects    |-> 0,
      routeRedirects |-> 0,
      shell      |-> FALSE ]

\* the user opens a URL
Navigate ==
    /\ nav.phase \in {"idle", "served"}
    /\ \E p \in Pathnames :
         nav' = [NavStart(nav.configured, nav.user) EXCEPT
                    !.phase = "request", !.pathname = p, !.start = p]
    /\ UNCHANGED besideNav

\* the request matches config.matcher: the middleware answers it
RunMiddleware ==
    /\ nav.phase = "request"
    /\ matcher(nav.pathname)
    /\ nav.mwRedirects < MaxHops
    /\ LET r == middleware(nav.configured, nav.user, nav.pathname)
           asked == [nav EXCEPT !.asked = nav.pathname, !.askedUser = nav.user,
                                !.answer = r.kind]
       IN nav' = IF r.kind = "redirect"
                 THEN [asked EXCEPT !.pathname = r.to, !.search = "",
                                    !.mwRedirects = @ + 1]
                 ELSE [asked EXCEPT !.phase = "route"]
    /\ UNCHANGED besideNav

\* the request does not match config.matcher: it goes straight to its route
SkipMiddleware ==
    /\ nav.phase = "request"
    /\ ~matcher(nav.pathname)
    /\ nav' = [nav EXCEPT !.phase = "route", !.answer = "none"]
    /\ UNCHANGED besideNav

\* the route handler of /auth/callback answers with a redirect
Callback ==
    /\ nav.phase = "route"
    /\ nav.pathname = AUTH_CALLBACK
    /\ nav.routeRedirects < MaxHops
    /\ \E case \in {"error", "missing_code", "session_error", "throws", "ok"} :
         /\ case = "ok" => nav.configured
         /\ LET r == GET(case)
            IN nav' = [nav EXCEPT !.phase = "request", !.pathname = r.to,
                                  !.search = r.search,
                                  !.user = nav.user \/ r.session,
                                  !.routeRedirects = @ + 1]
    /\ UNCHANGED besideNav

\* a page renders inside the root layout's ConditionalShell
Render ==
    /\ nav.phase = "route"
    /\ nav.pathname # AUTH_CALLBACK
    /\ matcher(nav.pathname)
    /\ nav' = [nav EXCEPT !.phase = "served",
                          !.shell = ConditionalShell(nav.pathname)]
    /\ UNCHANGED besideNav

\* the paths the matcher leaves out are API routes and static files: they
\* are answered without the root layout
ServeAsset ==
    /\ nav.phase = "route"
    /\ ~matcher(nav.pathname)
    /\ nav' = [nav EXCEPT !.phase = "served", !.shell = FALSE]
    /\ UNCHANGED besideNav

NavNext ==
    \/ Navigate \/ RunMiddleware \/ SkipMiddleware \/ Callback \/ Render
    \/ ServeAsset

---------------------------------------------------------------------------
(* Row level security: part_000 (database schema), lines 268-293           *)

\* auth.uid() of the two users of the model
Users == {"alice", "bob"}

\* the tables with a policy
Tables ==
    { "users", "generations", "exercises", "templates", "folders", "tags",
      "shared_links", "comments", "document_versions", "usage_stats" }

\* A row: `user` is the column holding a user id (users.id, user_id, or
\* created_by), `id` the primary key of a generation, `generation_id` the
\* generation a document version refers to, `is_public` the flag of a template.
Rows ==
    [ table : Tables \ {"generations", "templates", "document_versions"},
      user : Users, id : {0}, generation_id : {0}, is_public : {FALSE} ]
    \cup [ table : {"generations"}, user : Users, id : {1, 2},
           generation_id : {0}, is_public : {FALSE} ]
    \cup [ table : {"templates"}, user : Users, id : {0},
           generation_id : {0}, is_public : BOOLEAN ]
    \cup [ table : {"document_versions"}, user : Users, id : {0},
           generation_id : {1, 2}, is_public : {FALSE} ]

\* CREATE POLICY ... FOR ALL USING (...): the expression of the table's
\* policy for `row` and auth.uid() = uid, over the rows of the database
policy(row, uid, rows) ==
    CASE row.table = "templates" -> row.user = uid \/ row.is_public = TRUE
      [] row.table = "document_versions" ->
            \E g \in rows : /\ g.table = "generations"
                            /\ g.id = row.generation_id
                            /\ g.user = uid
      [] OTHER -> row.user = uid

NoOp == [op |-> "none", uid |-> "", old |-> << >>, new |-> << >>]

\* primary keys and foreign keys hold in `rows`
Consistent(rows) ==
    /\ \A r, s \in rows :
         (r.table = "generations" /\ s.table = "generations" /\ r.id = s.id)
           => r = s
    /\ \A r \in rows :
         r.table = "document_versions"
           => \E g \in rows : g.table = "generations" /\ g.id = r.generation_id

\* ON DELETE CASCADE
Cascade(rows) ==
    {r \in rows : r.table = "document_versions"
                    => \E g \in rows : /\ g.table = "generations"
                                       /\ g.id = r.generation_id}

\* SELECT: a row is returned if USING admits it
Select ==
    /\ \E uid \in Users, r \in db.rows :
         /\ policy(r, uid, db.rows)
         /\ db' = [db EXCEPT !.last = [op |-> "select", uid |-> uid,
                                       old |-> r, new |-> r]]
    /\ UNCHANGED besideDb

\* INSERT: WITH CHECK is the USING expression of a FOR ALL policy
Insert ==
    /\ Cardinality(db.rows) < MaxRows
    /\ \E uid \in Users, r \in Rows \ db.rows :
         /\ policy(r, uid, db.rows)
         /\ Consistent(db.rows \cup {r})
         /\ db' = [rows |-> db.rows \cup {r},
                   last |-> [op |-> "insert", uid |-> uid, old |-> << >>,
                             new |-> r]]
    /\ UNCHANGED besideDb

\* UPDATE: USING admits the existing row, WITH CHECK the new one
Update ==
    /\ \E uid \in Users, r \in db.rows, n \in Rows \ db.rows :
         /\ n.table = r.table /\ n.id = r.id
         /\ policy(r, uid, db.rows)
         /\ policy(n, uid, (db.rows \ {r}) \cup {n})
         /\ Consistent((db.rows \ {r}) \cup {n})
         /\ db' = [rows |-> (db.rows \ {r}) \cup {n},
                   last |-> [op |-> "update", uid |-> uid, old |-> r,
                             new |-> n]]
    /\ UNCHANGED besideDb

\* DELETE: USING admits the existing row
Delete ==
    /\ \E uid \in Users, r \in db.rows :
         /\ policy(r, uid, db.rows)
         /\ db' = [rows |-> Cascade(db.rows \ {r}),
                   last |-> [op |-> "delete", uid |-> uid, old |-> r,
                             new |-> << >>]]
    /\ UNCHANGED besideDb

DbNext == Select \/ Insert \/ Update \/ Delete

---------------------------------------------------------------------------
(* Backend: the Agent-Output Cache (specification 3, 4.4)                  *)

\* the structured fields of a request; `text` is its free-text instructions
Structured == {"grade", "topic", "difficulty"}

BaseRequest ==
    [grade |-> "8", topic |-> "algebra", difficulty |-> "easy", text |-> "t1"]

\* the requests of the model: the base request and its variations in one
\* field, or in the difficulty and the text
Requests ==
    { BaseRequest,
      [BaseRequest EXCEPT !.grade = "10"],
      [BaseRequest EXCEPT !.topic = "geometry"],
      [BaseRequest EXCEPT !.difficulty = "hard"],
      [BaseRequest EXCEPT !.text = "t1b"],
      [BaseRequest EXCEPT !.text = "t2"],
      [BaseRequest EXCEPT !.difficulty = "hard", !.text = "t1b"] }

\* the cached nodes, and the whole-pipeline tier
CacheNodes == {"Plan", "Draft", "Pipeline"}

\* the structured fields a node's output depends on: the Plan node depends
\* on grade, topic and instructions; the whole-pipeline tier is keyed by the
\* full request
DependsOn_everything(node) == Structured

DependsOn(node) ==
    IF node = "Plan" THEN {"grade", "topic"} ELSE Structured

\* similarity(a, b) of two instruction texts, in percent: t1 and t1b are
\* near-duplicates, t2 is unrelated
similarity(a, b) ==
    IF a = b THEN 100
    ELSE IF {a, b} = {"t1", "t1b"} THEN 95
    ELSE 20

\* the fingerprint of (node, request) matches the entry
Matches(entry, node, request) ==
    /\ entry.node = node
    /\ \A f \in DependsOn(node) : entry.request[f] = request[f]
    /\ similarity(entry.request.text, request.text) > Threshold

NoLookup ==
    [node |-> "", request |-> BaseRequest, outcome |-> "none",
     entry |-> [node |-> "", request |-> BaseRequest], before |-> {}]

\* the Engine consults the cache before invoking a node: a matching entry is
\* reused; on a miss the node runs and its output is entered, an entry being
\* evicted when the cache is full
Lookup ==
    \E node \in CacheNodes, request \in Requests :
      LET hits == {e \in cache.entries : Matches(e, node, request)}
          new  == [node |-> node, request |-> request]
          look == [node |-> node, request |-> request, outcome |-> "miss",
                   entry |-> new, before |-> cache.entries]
      IN /\ IF hits # {}
            THEN \E e \in hits :
                   cache' = [cache EXCEPT
                               !.last = [look EXCEPT !.outcome = "hit",
                                                     !.entry = e]]
            ELSE IF Cardinality(cache.entries) < MaxEntries
            THEN cache' = [entries |-> cache.entries \cup {new}, last |-> look]
            ELSE \E victim \in cache.entries :
                   cache' = [entries |-> (cache.entries \ {victim}) \cup {new},
                             last |-> look]
         /\ UNCHANGED besideCache

---------------------------------------------------------------------------
(* Backend: the Model Gateway (specification 4.5, 6, 7)                    *)

\* configuration: the ordered list of backends of an agent role
Order(role) ==
    CASE role = "pedagogue"   -> << "claude", "gemini", "gpt-4o" >>
      [] role = "author"      -> << "gemini", "claude" >>
      [] role = "latex_fixer" -> << "gemini" >>

NoCall ==
    [ phase    |-> "idle",     \* idle | calling | returned
      role     |-> "",
      tried    |-> 0,          \* backends of the list tried in this call
      log      |-> << >>,      \* the attempts recorded, over all calls
      base     |-> 0,          \* length of the log when this call began
      response |-> "",         \* the backend whose text is returned
      errors   |-> 0,          \* errors surfaced to the Engine by this call
      invoked  |-> 0 ]

\* invoke(role, system_instructions, user_payload, config)
Invoke ==
    /\ gw.phase \in {"idle", "returned"}
    /\ gw.invoked < MaxCalls
    /\ \E role \in {"pedagogue", "author", "latex_fixer"} :
         gw' = [gw EXCEPT !.phase = "calling", !.role = role, !.tried = 0,
                          !.base = Len(gw.log), !.response = "", !.errors = 0,
                          !.invoked = @ + 1]
    /\ UNCHANGED besideGw

\* the next backend of the list answers: its text is the call's response
BackendSucceeds ==
    /\ gw.phase = "calling"
    /\ LET backend == Order(gw.role)[gw.tried + 1]
       IN gw' = [gw EXCEPT !.phase = "returned", !.tried = @ + 1,
                           !.log = Append(@, [role |-> gw.role,
                                              backend |-> backend,
                                              ok |-> TRUE]),
                           !.response = backend]
    /\ UNCHANGED besideGw

BackendFails_surfacesAtOnce ==
    /\ gw.phase = "calling"
    /\ LET backend == Order(gw.role)[gw.tried + 1]
       IN gw' = [gw EXCEPT !.phase = "returned", !.tried = @ + 1,
                           !.log = Append(@, [role |-> gw.role,
                                              backend |-> backend,
                                              ok |-> FALSE]),
                           !.errors = @ + 1]
    /\ UNCHANGED besideGw

\* the next backend of the list fails with GatewayError: the Gateway goes on
\* to the backend after it; after the last one it surfaces one aggregated
\* error
BackendFails ==
    /\ gw.phase = "calling"
    /\ LET backend == Order(gw.role)[gw.tried + 1]
           last    == gw.tried + 1 = Len(Order(gw.role))
       IN gw' = [gw EXCEPT !.phase = IF last THEN "returned" ELSE "calling",
                           !.tried = @ + 1,
                           !.log = Append(@, [role |-> gw.role,
                                              backend |-> backend,
                                              ok |-> FALSE]),
                           !.errors = IF last THEN @ + 1 ELSE @]
    /\ UNCHANGED besideGw

GwNext == Invoke \/ BackendSucceeds \/ BackendFails

---------------------------------------------------------------------------
(* The LaTeX editor: part_008 (LatexEditor), lines 51-149 and 266-289      *)
(* A text is a sequence of fragments; a fragment is known by the document  *)
(* source it is taken from.                                                *)

\* the texts typed into the textarea, the snippet of a toolbar button and
\* the replacement an AI action proposes
EditorTexts == {<< >>, <<"ok", "broken">>, <<"wrong", "ok">>}
Snippet == <<"ok">>
Replacement == <<"unv">>

\* the /editor/compile endpoint behind compileLatex: the errors of the
\* first fragment that does not typeset
compileLatex(latexContent) ==
    IF \E i \in 1..Len(latexContent) : Compile(latexContent[i]) # << >>
    THEN Compile("broken")
    ELSE << >>

\* String.prototype.substring(start, end) and substring(start)
substring(s, start, end) == SubSeq(s, start + 1, end)

NoPdf == [shown |-> FALSE, of |-> << >>]

triggerCompile_keepsTimer(e, latexContent) ==
    [e EXCEPT !.timers = @ \cup {[id |-> e.debounceRef + 1,
                                  latexContent |-> latexContent]},
              !.debounceRef = @ + 1]

\* triggerCompile(latexContent): clearTimeout(debounceRef.current), then
\* debounceRef.current = setTimeout(..., 800)
triggerCompile(e, latexContent) ==
    [e EXCEPT !.timers = {t \in @ : t.id # e.debounceRef}
                           \cup {[id |-> e.debounceRef + 1,
                                  latexContent |-> latexContent]},
              !.debounceRef = @ + 1]

\* the component after it has mounted: useState initial values, and the
\* mount effect's triggerCompile(content) has set the debounce timer.
\* `selection` is the textarea's selectionStart and selectionEnd, `timers`
\* the timeouts that are set and have not fired, `inflight` and `aiCalls`
\* the compileLatex and editorAction calls awaiting an answer; `asked` is
\* the selection the latest AI action was requested for, and `edited`
\* whether the text was edited since
LatexEditor(initialContent) ==
    triggerCompile(
      [ content     |-> initialContent,
        selection   |-> [start |-> 0, end |-> 0],
        pdfBase64   |-> NoPdf,       \* the text the shown PDF was made from
        errors      |-> << >>,
        compiling   |-> FALSE,
        showDiff    |-> FALSE,
        diffContent |-> << >>,
        aiLoading   |-> "",
        timers      |-> {},
        debounceRef |-> 0,
        inflight    |-> {},
        aiCalls     |-> {},
        sent        |-> 0,
        edits       |-> 0,
        lost        |-> FALSE,       \* a request failed without an answer
        asked       |-> [start |-> 0, end |-> 0],
        edited      |-> FALSE ],
      initialContent)

\* an edit of the text, whatever made it: setContent(newContent) and
\* triggerCompile(newContent); the textarea's caret ends up at `caret`
edit(e, newContent, caret) ==
    triggerCompile(
      [e EXCEPT !.content = newContent,
                !.selection = [start |-> caret, end |-> caret],
                !.edits = @ + 1,
                !.edited = TRUE],
      newContent)

\* handleChange(value): typing leaves the caret at the end of what was typed
handleChange(e, value) == edit(e, value, Len(value))

HandleChange ==
    /\ ed.edits < MaxEdits
    /\ \E value \in EditorTexts :
         /\ value # ed.content
         /\ ed' = handleChange(ed, value)
    /\ UNCHANGED besideEd

\* insertAtCursor(text): a toolbar button of the "Sett inn" group, pressed
\* with the caret or selection the user has placed; the timeout of 0 ms
\* puts the caret behind the inserted text
insertAtCursor(e, start, end) ==
    LET newContent == substring(e.content, 0, start) \o Snippet
                        \o substring(e.content, end, Len(e.content))
    IN edit(e, newContent, start + Len(Snippet))

InsertAtCursor ==
    /\ ed.edits < MaxEdits
    /\ \E start, end \in 0..Len(ed.content) :
         /\ start <= end
         /\ ed' = insertAtCursor(ed, start, end)
    /\ UNCHANGED besideEd

\* handleAiAction(action) to its await, called with the range the user has
\* selected: nothing without a selection; the button of the action is
\* disabled while the action is loading
HandleAiAction ==
    /\ ed.aiLoading # "simplify"
    /\ \E start, end \in 0..Len(ed.content) :
         LET selection == substring(ed.content, start, end)
         IN /\ start <= end
            /\ selection # << >>
            /\ ed' = [ed EXCEPT
                        !.selection = [start |-> start, end |-> end],
                        !.aiLoading = "simplify",
                        !.aiCalls = @ \cup {selection},
                        !.asked = [start |-> start, end |-> end],
                        !.edited = FALSE]
    /\ UNCHANGED besideEd

\* handleAiAction after its await: the suggestion is shown, or nothing on
\* failure
AiAnswers ==
    /\ \E selection \in ed.aiCalls, success \in BOOLEAN :
         ed' = [ed EXCEPT
                  !.diffContent = IF success THEN Replacement ELSE @,
                  !.showDiff = IF success THEN TRUE ELSE @,
                  !.aiLoading = "",
                  !.aiCalls = @ \ {selection}]
    /\ UNCHANGED besideEd

\* acceptDiff: the Godta button of the overlay; the range is read from the
\* textarea when the button is pressed
acceptDiff(e) ==
    LET before == substring(e.content, 0, e.selection.start)
        after == substring(e.content, e.selection.end, Len(e.content))
        newContent == before \o e.diffContent \o after
        accepted == edit(e, newContent, Len(newContent))
    IN [accepted EXCEPT !.showDiff = FALSE, !.diffContent = << >>]

\* the textarea stays usable under the overlay: when Godta is pressed the
\* selection is the one the request left, or any the user has made since
AcceptDiff ==
    /\ ed.edits < MaxEdits
    /\ ed.showDiff /\ ed.diffContent # << >>
    /\ \E start, end \in 0..Len(ed.content) :
         /\ start <= end
         /\ ed' = acceptDiff([ed EXCEPT
                                !.selection = [start |-> start,
                                               end |-> end]])
    /\ UNCHANGED besideEd

\* the Avvis button of the overlay
RejectDiff ==
    /\ ed.showDiff
    /\ ed' = [ed EXCEPT !.showDiff = FALSE, !.diffContent = << >>]
    /\ UNCHANGED besideEd

\* 800 ms have passed: the timer's callback sets compiling and sends the
\* request, up to its await; `at` is the content at that moment
TimerFires ==
    /\ \E timer \in ed.timers :
         ed' = [ed EXCEPT !.timers = @ \ {timer},
                          !.compiling = TRUE,
                          !.inflight = @ \cup {[id |-> ed.sent + 1,
                                                latexContent |->
                                                  timer.latexContent,
                                                at |-> ed.content]},
                          !.sent = @ + 1]
    /\ UNCHANGED besideEd

\* the callback after its await, for any request in flight: the result is
\* shown, and the finally block clears compiling
onCompiled(e, request) ==
    LET result == compileLatex(request.latexContent)
        shown  == IF result = << >>
                  THEN [e EXCEPT !.pdfBase64 = [shown |-> TRUE,
                                                of |-> request.latexContent],
                                 !.errors = << >>]
                  ELSE [e EXCEPT !.errors = result]
    IN [shown EXCEPT !.compiling = FALSE, !.inflight = @ \ {request}]

CompileAnswers ==
    /\ \E request \in ed.inflight : ed' = onCompiled(ed, request)
    /\ UNCHANGED besideEd

\* compileLatex throws: the catch block
CompileThrows ==
    /\ \E request \in ed.inflight :
         ed' = [ed EXCEPT
                  !.errors = <<[line |-> 0,
                                message |-> "Compilation request failed"]>>,
                  !.compiling = FALSE,
                  !.inflight = @ \ {request},
                  !.lost = TRUE]
    /\ UNCHANGED besideEd

\* typing and compilation
EdNext == HandleChange \/ TimerFires \/ CompileAnswers \/ CompileThrows

\* every way of editing the text, and the timer; the answers of the compile
\* requests change neither the text nor the timers
EditingNext ==
    \/ HandleChange \/ InsertAtCursor
    \/ HandleAiAction \/ AiAnswers \/ AcceptDiff \/ RejectDiff
    \/ TimerFires

---------------------------------------------------------------------------
(* The update-password page: frontend/src/app/update-password/page.tsx     *)

\* the passwords typed in the model: empty, too short, and two long enough
Passwords == {"", "abc", "abcdef", "abcdeg"}

\* the component's useState values before the page is opened, with the
\* effect's timeout and getSession call not yet started; `session` is
\* whether the Supabase client holds a session, `recovery` and `sessionSeen`
\* record what the effect's two checks have observed
UpdatePasswordPage ==
    [ mounted         |-> FALSE,
      password        |-> "",
      confirmPassword |-> "",
      error           |-> "",
      success         |-> FALSE,
      loading         |-> FALSE,
      ready           |-> FALSE,
      timeout         |-> FALSE,
      asking          |-> FALSE,
      session         |-> FALSE,
      recovery        |-> FALSE,
      sessionSeen     |-> FALSE ]

\* the effect on mount: subscribes to the auth events, asks getSession and
\* sets the 2000 ms timeout; the link that opened the page may or may not
\* have carried a recovery token that gave the client a session
MountUpdatePassword ==
    /\ ~up.mounted
    /\ \E session \in BOOLEAN :
         up' = [up EXCEPT !.mounted = TRUE, !.timeout = TRUE,
                          !.asking = TRUE, !.session = session]
    /\ UNCHANGED besideUp

\* the onAuthStateChange listener
OnAuthStateChange ==
    /\ up.mounted
    /\ \E event \in {"PASSWORD_RECOVERY", "SIGNED_IN", "TOKEN_REFRESHED"} :
         /\ event # "PASSWORD_RECOVERY" => up.session
         /\ up' = IF event = "PASSWORD_RECOVERY"
                  THEN [up EXCEPT !.ready = TRUE, !.recovery = TRUE,
                                  !.session = TRUE]
                  ELSE up
    /\ UNCHANGED besideUp

\* getSession().then(...)
GetSessionAnswers ==
    /\ up.asking
    /\ up' = IF up.session
             THEN [up EXCEPT !.asking = FALSE, !.ready = TRUE,
                             !.sessionSeen = TRUE]
             ELSE [up EXCEPT !.asking = FALSE]
    /\ UNCHANGED besideUp

\* the callback of setTimeout(..., 2000)
ReadyTimeout ==
    /\ up.timeout
    /\ up' = [up EXCEPT !.timeout = FALSE, !.ready = TRUE]
    /\ UNCHANGED besideUp

\* the submit button's `disabled` attribute
submitDisabled(p) == p.loading \/ ~p.ready

SetPassword ==
    /\ up.mounted /\ ~up.success
    /\ \E value \in Passwords, field \in {"password", "confirmPassword"} :
         /\ up[field] # value
         /\ up' = [up EXCEPT ![field] = value]
    /\ UNCHANGED besideUp

\* handleUpdate up to its await; the form is submitted through its submit
\* button, so a disabled button submits nothing
HandleUpdate ==
    /\ up.mounted /\ ~up.success
    /\ ~submitDisabled(up)
    /\ up' = IF Len(up.password) < 6
             THEN [up EXCEPT !.error = "Passordet må være minst 6 tegn."]
             ELSE IF up.password # up.confirmPassword
             THEN [up EXCEPT !.error = "Passordene er ikke like."]
             ELSE [up EXCEPT !.error = "", !.loading = TRUE]
    /\ UNCHANGED besideUp

\* handleUpdate after its await: updateUser answers, reports an error (as
\* it does without a session) or throws
UpdateUserAnswers ==
    /\ up.loading
    /\ \E outcome \in {"ok", "error", "throws"} :
         /\ outcome = "ok" => up.session
         /\ up' = CASE outcome = "ok" ->
                         [up EXCEPT !.success = TRUE, !.loading = FALSE]
                    [] outcome = "error" ->
                         [up EXCEPT !.error = "updateError.message",
                                    !.loading = FALSE]
                    [] OTHER ->
                         [up EXCEPT !.error = "Noe gikk galt. Prøv igjen.",
                                    !.loading = FALSE]
    /\ UNCHANGED besideUp

UpNext ==
    \/ MountUpdatePassword \/ OnAuthStateChange \/ GetSessionAnswers
    \/ ReadyTimeout \/ SetPassword \/ HandleUpdate \/ UpdateUserAnswers

---------------------------------------------------------------------------
(* The shared-resource page: part_005 (SharedResourcePage), part_012       *)
(* (getShared).  The sharing router is backend code; its answers are the   *)
(* status codes the page and the specification name.                       *)

\* String.prototype.includes on a message, by words
includes(message, word) == \E i \in 1..Len(message) : message[i] = word

\* what GET /sharing/{token} answers for a link and the password sent: the
\* status and the body's text
Answer(link, pwd) ==
    CASE link = "missing" -> [status |-> 404, text |-> <<"Not", "found">>]
      [] link = "expired" -> [status |-> 410, text |-> <<"Link", "expired">>]
      [] link = "protected" /\ pwd # "pw" ->
             [status |-> 401, text |-> <<"Password", "required">>]
      [] OTHER -> [status |-> 200, text |-> <<"resource">>]

\* getShared: fetch resolves for every status and the body is parsed and
\* returned, whatever the status; it throws only when fetch fails ("down")
\* or when the body is not JSON ("text": the parser's message quotes the
\* body)
getShared(link, pwd, transport) ==
    LET answer == Answer(link, pwd)
    IN CASE transport = "down" ->
              [throws |-> TRUE, message |-> <<"Failed", "to", "fetch">>]
         [] transport = "text" /\ answer.status # 200 ->
              [throws |-> TRUE,
               message |-> <<"Unexpected", "token">> \o answer.text]
         [] OTHER ->
              [throws |-> FALSE, success |-> answer.status = 200]

\* the component before the page is opened; `link` is the state of the
\* share behind the token, `inflight` the passwords of the getShared calls
\* awaiting an answer, `last` the status of the answer handled last
SharedResourcePage ==
    [ mounted       |-> FALSE,
      link          |-> "missing",
      resource      |-> FALSE,
      error         |-> "",
      loading       |-> TRUE,
      needsPassword |-> FALSE,
      password      |-> "",
      inflight      |-> {},
      last          |-> 0 ]

\* loadResource(pwd) up to its await
loadResource(p, pwd) ==
    [p EXCEPT !.loading = TRUE, !.error = "", !.inflight = @ \cup {pwd},
              !.last = 0]

\* loadResource after its await, for the result of getShared
onShared(p, r) ==
    LET shown ==
          IF ~r.throws
          THEN IF r.success
               THEN [p EXCEPT !.resource = TRUE, !.needsPassword = FALSE]
               ELSE [p EXCEPT !.error = "Kunne ikke laste ressursen."]
          ELSE IF includes(r.message, "401") \/ includes(r.message, "Password")
               THEN [p EXCEPT !.needsPassword = TRUE]
          ELSE IF includes(r.message, "410")
               THEN [p EXCEPT !.error = "Denne delingen har utløpt."]
          ELSE IF includes(r.message, "404")
               THEN [p EXCEPT !.error = "Delt lenke ikke funnet."]
          ELSE [p EXCEPT !.error = "e.message"]
    IN [shown EXCEPT !.loading = FALSE]

\* the effect on mount: loadResource() for the token of the URL
MountShared ==
    /\ ~sh.mounted
    /\ \E link \in {"missing", "expired", "protected", "open"} :
         sh' = loadResource([sh EXCEPT !.mounted = TRUE, !.link = link], "")
    /\ UNCHANGED besideSh

SharedAnswers ==
    /\ \E pwd \in sh.inflight, transport \in {"json", "text", "down"} :
         sh' = [onShared(sh, getShared(sh.link, pwd, transport)) EXCEPT
                  !.inflight = @ \ {pwd},
                  !.last = IF transport = "down" THEN 0
                           ELSE Answer(sh.link, pwd).status]
    /\ UNCHANGED besideSh

\* the password prompt, rendered while needsPassword: its input
SetSharedPassword ==
    /\ sh.mounted /\ sh.needsPassword
    /\ \E value \in {"", "pw", "no"} :
         /\ value # sh.password
         /\ sh' = [sh EXCEPT !.password = value]
    /\ UNCHANGED besideSh

\* the password prompt: its form's onSubmit
SubmitSharedPassword ==
    /\ sh.mounted /\ sh.needsPassword
    /\ sh.password \notin sh.inflight
    /\ sh' = loadResource(sh, sh.password)
    /\ UNCHANGED besideSh

ShNext ==
    MountShared \/ SharedAnswers \/ SetSharedPassword \/ SubmitSharedPassword

---------------------------------------------------------------------------
(* The exercise bank: part_002 (ExerciseBankPage, ExerciseCard)            *)

\* the exercises on the cards, the queries typed into the search field
ExerciseIds == {"e1", "e2"}
Queries == {"", "a", "ab"}

NoAction == [op |-> "none", ids |-> << >>, sent |-> << >>]

\* the component's useState values; `selected` keeps the insertion order
\* of the JavaScript Set, `debounce` is whether debounceRef holds a live
\* timer, `hintCalls` and `exporting` are the generateHints and
\* exportExercises calls awaiting an answer, `last` is what the latest
\* handler did: the ids it passed to exportExercises, the queries of the
\* requests the fetchExercises effect sent after it
ExerciseBankPage ==
    [ mounted       |-> FALSE,
      searchQuery   |-> "",
      page          |-> 1,
      debounce      |-> FALSE,
      selected      |-> << >>,
      expandedId    |-> "",
      buildMode     |-> FALSE,
      examExercises |-> << >>,
      hints         |-> "",
      hintCalls     |-> {},
      exporting     |-> FALSE,
      actionLoading |-> "",
      last          |-> NoAction ]

has(list, id) == \E i \in 1..Len(list) : list[i] = id

filter(list, id) ==
    LET keep(e) == e # id IN SelectSeq(list, keep)

\* the effect on fetchExercises: the callback is rebuilt, and the effect
\* runs it, whenever searchQuery or page changed in the render
fetched(before, after) ==
    IF before.searchQuery # after.searchQuery \/ before.page # after.page
    THEN <<after.searchQuery>>
    ELSE << >>

MountBank ==
    /\ ~bank.mounted
    /\ bank' = [bank EXCEPT !.mounted = TRUE,
                            !.last = [NoAction EXCEPT !.op = "mount",
                                                      !.sent = <<"">>]]
    /\ UNCHANGED besideBank

\* handleSearch(value): setSearchQuery, and the timer is replaced
HandleSearch ==
    /\ bank.mounted
    /\ \E value \in Queries :
         /\ value # bank.searchQuery
         /\ LET after == [bank EXCEPT !.searchQuery = value,
                                      !.debounce = TRUE]
            IN bank' = [after EXCEPT
                          !.last = [NoAction EXCEPT
                                      !.op = "search",
                                      !.sent = fetched(bank, after)]]
    /\ UNCHANGED besideBank

\* 300 ms have passed: the timer's callback, setPage(1)
SearchTimerFires ==
    /\ bank.debounce
    /\ LET after == [bank EXCEPT !.page = 1, !.debounce = FALSE]
       IN bank' = [after EXCEPT
                     !.last = [NoAction EXCEPT
                                 !.op = "timer",
                                 !.sent = fetched(bank, after)]]
    /\ UNCHANGED besideBank

\* the pagination buttons: Neste and Forrige
SetPage ==
    /\ bank.mounted
    /\ LET after == [bank EXCEPT !.page = IF @ = 1 THEN 2 ELSE 1]
       IN bank' = [after EXCEPT
                     !.last = [NoAction EXCEPT
                                 !.op = "page",
                                 !.sent = fetched(bank, after)]]
    /\ UNCHANGED besideBank

\* toggleSelect(id): the card's checkbox
ToggleSelect ==
    /\ bank.mounted
    /\ \E id \in ExerciseIds :
         bank' = [bank EXCEPT
                    !.selected = IF has(@, id) THEN filter(@, id)
                                 ELSE Append(@, id),
                    !.last = NoAction]
    /\ UNCHANGED besideBank

\* onExpand: the card's preview and its Lignende button
Expand ==
    /\ bank.mounted
    /\ \E id \in ExerciseIds :
         bank' = [bank EXCEPT
                    !.expandedId = IF @ = id THEN "" ELSE id,
                    !.last = NoAction]
    /\ UNCHANGED besideBank

\* the Bygg eksamen button
ToggleBuildMode ==
    /\ bank.mounted
    /\ bank' = [bank EXCEPT !.buildMode = ~@, !.last = NoAction]
    /\ UNCHANGED besideBank

\* onAddToExam: the card's "+ Eksamen" button, shown in build mode
AddToExam ==
    /\ bank.mounted /\ bank.buildMode
    /\ \E id \in ExerciseIds :
         bank' = [bank EXCEPT
                    !.examExercises = IF has(@, id) THEN @
                                      ELSE Append(@, id),
                    !.last = [NoAction EXCEPT !.op = "add",
                                              !.ids = <<id>>]]
    /\ UNCHANGED besideBank

\* the X button of an entry of the exam builder
RemoveFromExam ==
    /\ bank.mounted /\ bank.buildMode
    /\ \E id \in ExerciseIds :
         /\ has(bank.examExercises, id)
         /\ bank' = [bank EXCEPT
                       !.examExercises = filter(@, id),
                       !.last = [NoAction EXCEPT !.op = "remove",
                                                 !.ids = <<id>>]]
    /\ UNCHANGED besideBank

\* handleBulkExport to its await: nothing when no checkbox is selected,
\* else exportExercises(Array.from(selected), format)
handleBulkExport(b, button) ==
    IF Len(b.selected) = 0
    THEN [b EXCEPT !.last = [NoAction EXCEPT !.op = button]]
    ELSE [b EXCEPT !.actionLoading = "export",
                   !.exporting = TRUE,
                   !.last = [NoAction EXCEPT !.op = button,
                                             !.ids = b.selected,
                                             !.sent = <<"export">>]]

\* the PDF and Word buttons of the bulk action bar
BulkExport ==
    /\ bank.mounted /\ Len(bank.selected) > 0
    /\ bank' = handleBulkExport(bank, "bulk")
    /\ UNCHANGED besideBank

\* the Generer eksamen button of the exam builder
GenerateExam ==
    /\ bank.mounted /\ bank.buildMode /\ Len(bank.examExercises) > 0
    /\ bank' = handleBulkExport(bank, "exam")
    /\ UNCHANGED besideBank

\* handleBulkExport after its await
ExportAnswers ==
    /\ bank.exporting
    /\ bank' = [bank EXCEPT !.exporting = FALSE, !.actionLoading = "",
                            !.last = NoAction]
    /\ UNCHANGED besideBank

\* handleGenerateHints(ex) to its await; the Hint buttons are disabled
\* while actionLoading is "hints"
GenerateHints ==
    /\ bank.mounted /\ bank.actionLoading # "hints"
    /\ \E id \in ExerciseIds :
         /\ id \notin bank.hintCalls
         /\ bank' = [bank EXCEPT !.actionLoading = "hints",
                                 !.hintCalls = @ \cup {id},
                                 !.last = NoAction]
    /\ UNCHANGED besideBank

\* handleGenerateHints after its await: the hints of the exercise the call
\* was made for, or no success
HintsAnswer ==
    /\ \E id \in bank.hintCalls, success \in BOOLEAN :
         bank' = [bank EXCEPT
                    !.hints = IF success THEN id ELSE @,
                    !.hintCalls = @ \ {id},
                    !.actionLoading = "",
                    !.last = NoAction]
    /\ UNCHANGED besideBank

\* what a card shows under its actions: hints={expandedId === ex.id ? hints
\* : null}, rendered when isExpanded && hints
shownHints(b, id) == IF b.expandedId = id THEN b.hints ELSE ""

BankNext ==
    \/ MountBank \/ HandleSearch \/ SearchTimerFires \/ SetPage
    \/ ToggleSelect \/ Expand \/ ToggleBuildMode \/ AddToExam
    \/ RemoveFromExam \/ BulkExport \/ GenerateExam \/ ExportAnswers
    \/ GenerateHints \/ HintsAnswer

---------------------------------------------------------------------------
(* The database scripts: part_000 (the PostgreSQL schema) and              *)
(* backend/migrations/001_initial.sql (the Supabase migration)             *)

\* a statement of a script: the line it starts on, its kind, the table or
\* function it creates, and the tables and functions that must exist for it
\* to succeed (REFERENCES targets other than the table itself, the table of
\* an index, ALTER TABLE, policy or trigger, the tables a policy reads, the
\* function a trigger executes, auth.uid() in a policy)
Statement(line, kind, defines, needs) ==
    [line |-> line, kind |-> kind, defines |-> defines, needs |-> needs]

\* part_000: the statements of the schema in file order
SchemaSql ==
    << Statement(9, "extension", "", {}),
       Statement(10, "extension", "", {}),
       Statement(15, "table", "users", {}),
       Statement(28, "index", "", {"users"}),
       Statement(33, "table", "generations", {"folders", "users"}),
       Statement(73, "index", "", {"generations"}),
       Statement(74, "index", "", {"generations"}),
       Statement(75, "index", "", {"generations"}),
       Statement(76, "index", "", {"generations"}),
       Statement(81, "table", "exercises", {"generations", "users"}),
       Statement(117, "index", "", {"exercises"}),
       Statement(118, "index", "", {"exercises"}),
       Statement(119, "index", "", {"exercises"}),
       Statement(120, "index", "", {"exercises"}),
       Statement(125, "table", "templates", {"users"}),
       Statement(141, "index", "", {"templates"}),
       Statement(142, "index", "", {"templates"}),
       Statement(147, "table", "folders", {"users"}),
       Statement(160, "index", "", {"folders"}),
       Statement(161, "index", "", {"folders"}),
       Statement(166, "table", "tags", {"users"}),
       Statement(178, "index", "", {"tags"}),
       Statement(181, "table", "generation_tags", {"generations", "tags"}),
       Statement(188, "table", "exercise_tags", {"exercises", "tags"}),
       Statement(197, "table", "shared_links", {"generations", "users"}),
       Statement(213, "index", "", {"shared_links"}),
       Statement(214, "index", "", {"shared_links"}),
       Statement(217, "table", "comments", {"generations", "users"}),
       Statement(229, "index", "", {"comments"}),
       Statement(234, "table", "document_versions",
                 {"generations", "users"}),
       Statement(248, "index", "", {"document_versions"}),
       Statement(253, "table", "usage_stats", {"users"}),
       Statement(263, "index", "", {"usage_stats"}),
       Statement(264, "index", "", {"usage_stats"}),
       Statement(265, "index", "", {"usage_stats"}),
       Statement(271, "alter", "", {"users"}),
       Statement(272, "alter", "", {"generations"}),
       Statement(273, "alter", "", {"exercises"}),
       Statement(274, "alter", "", {"templates"}),
       Statement(275, "alter", "", {"folders"}),
       Statement(276, "alter", "", {"tags"}),
       Statement(277, "alter", "", {"shared_links"}),
       Statement(278, "alter", "", {"comments"}),
       Statement(279, "alter", "", {"document_versions"}),
       Statement(280, "alter", "", {"usage_stats"}),
       Statement(283, "policy", "", {"auth.uid()", "users"}),
       Statement(284, "policy", "", {"auth.uid()", "generations"}),
       Statement(285, "policy", "", {"auth.uid()", "exercises"}),
       Statement(286, "policy", "", {"auth.uid()", "templates"}),
       Statement(287, "policy", "", {"auth.uid()", "folders"}),
       Statement(288, "policy", "", {"auth.uid()", "tags"}),
       Statement(289, "policy", "", {"auth.uid()", "shared_links"}),
       Statement(290, "policy", "", {"auth.uid()", "comments"}),
       Statement(291, "policy", "",
                 {"auth.uid()", "document_versions", "generations"}),
       Statement(293, "policy", "", {"auth.uid()", "usage_stats"}),
       Statement(300, "function", "update_updated_at()", {}),
       Statement(308, "trigger", "", {"update_updated_at()", "users"}),
       Statement(310, "trigger", "",
                 {"generations", "update_updated_at()"}),
       Statement(312, "trigger", "", {"exercises", "update_updated_at()"}),
       Statement(314, "trigger", "", {"templates", "update_updated_at()"}),
       Statement(318, "function", "search_exercises()", {}) >>

\* 001_initial.sql: the statements of the migration in file order
MigrationSql ==
    << Statement(9, "extension", "", {}),
       Statement(10, "extension", "", {}),
       Statement(15, "function", "update_updated_at()", {}),
       Statement(26, "table", "schools", {}),
       Statement(34, "trigger", "", {"schools", "update_updated_at()"}),
       Statement(40, "table", "profiles", {"auth.users", "schools"}),
       Statement(53, "trigger", "", {"profiles", "update_updated_at()"}),
       Statement(57, "function", "handle_new_user()", {}),
       Statement(66, "trigger", "", {"auth.users", "handle_new_user()"}),
       Statement(73, "table", "folders", {"auth.users"}),
       Statement(87, "index", "", {"folders"}),
       Statement(88, "index", "", {"folders"}),
       Statement(90, "trigger", "", {"folders", "update_updated_at()"}),
       Statement(96, "table", "generations", {"auth.users", "folders"}),
       Statement(136, "index", "", {"generations"}),
       Statement(137, "index", "", {"generations"}),
       Statement(138, "index", "", {"generations"}),
       Statement(139, "index", "", {"generations"}),
       Statement(141, "trigger", "",
                 {"generations", "update_updated_at()"}),
       Statement(147, "table", "exercises",
                 {"auth.users", "generations", "schools"}),
       Statement(190, "index", "", {"exercises"}),
       Statement(191, "index", "", {"exercises"}),
       Statement(192, "index", "", {"exercises"}),
       Statement(193, "index", "", {"exercises"}),
       Statement(194, "index", "", {"exercises"}),
       Statement(195, "index", "", {"exercises"}),
       Statement(197, "trigger", "", {"exercises", "update_updated_at()"}),
       Statement(203, "table", "templates", {"auth.users"}),
       Statement(217, "index", "", {"templates"}),
       Statement(218, "index", "", {"templates"}),
       Statement(220, "trigger", "", {"templates", "update_updated_at()"}),
       Statement(226, "table", "tags", {"auth.users"}),
       Statement(235, "index", "", {"tags"}),
       Statement(237, "table", "generation_tags", {"generations", "tags"}),
       Statement(243, "table", "exercise_tags", {"exercises", "tags"}),
       Statement(252, "table", "shared_links",
                 {"auth.users", "generations"}),
       Statement(268, "index", "", {"shared_links"}),
       Statement(269, "index", "", {"shared_links"}),
       Statement(274, "table", "comments", {"auth.users", "generations"}),
       Statement(286, "index", "", {"comments"}),
       Statement(288, "trigger", "", {"comments", "update_updated_at()"}),
       Statement(294, "table", "document_versions",
                 {"auth.users", "generations"}),
       Statement(305, "index", "", {"document_versions"}),
       Statement(310, "table", "usage_stats", {"auth.users"}),
       Statement(318, "index", "", {"usage_stats"}),
       Statement(319, "index", "", {"usage_stats"}),
       Statement(320, "index", "", {"usage_stats"}),
       Statement(325, "alter", "", {"profiles"}),
       Statement(326, "alter", "", {"schools"}),
       Statement(327, "alter", "", {"folders"}),
       Statement(328, "alter", "", {"generations"}),
       Statement(329, "alter", "", {"exercises"}),
       Statement(330, "alter", "", {"templates"}),
       Statement(331, "alter", "", {"tags"}),
       Statement(332, "alter", "", {"generation_tags"}),
       Statement(333, "alter", "", {"exercise_tags"}),
       Statement(334, "alter", "", {"shared_links"}),
       Statement(335, "alter", "", {"comments"}),
       Statement(336, "alter", "", {"document_versions"}),
       Statement(337, "alter", "", {"usage_stats"}),
       Statement(340, "policy", "", {"auth.uid()", "profiles"}),
       Statement(341, "policy", "", {"auth.uid()", "profiles"}),
       Statement(344, "policy", "", {"auth.uid()", "profiles", "schools"}),
       Statement(348, "policy", "", {"auth.uid()", "folders"}),
       Statement(351, "policy", "", {"auth.uid()", "generations"}),
       Statement(352, "policy", "", {"auth.uid()", "generations"}),
       Statement(353, "policy", "", {"auth.uid()", "generations"}),
       Statement(354, "policy", "", {"auth.uid()", "generations"}),
       Statement(357, "policy", "", {"auth.uid()", "exercises"}),
       Statement(359, "policy", "",
                 {"auth.uid()", "exercises", "profiles"}),
       Statement(365, "policy", "", {"auth.uid()", "exercises"}),
       Statement(366, "policy", "", {"auth.uid()", "exercises"}),
       Statement(367, "policy", "", {"auth.uid()", "exercises"}),
       Statement(370, "policy", "", {"auth.uid()", "templates"}),
       Statement(372, "policy", "", {"auth.uid()", "templates"}),
       Statement(375, "policy", "", {"auth.uid()", "tags"}),
       Statement(378, "policy", "",
                 {"auth.uid()", "generation_tags", "generations"}),
       Statement(380, "policy", "",
                 {"auth.uid()", "exercise_tags", "exercises"}),
       Statement(384, "policy", "", {"auth.uid()", "shared_links"}),
       Statement(388, "policy", "",
                 {"auth.uid()", "comments", "generations"}),
       Statement(390, "policy", "", {"auth.uid()", "comments"}),
       Statement(391, "policy", "", {"auth.uid()", "comments"}),
       Statement(392, "policy", "", {"auth.uid()", "comments"}),
       Statement(395, "policy", "",
                 {"auth.uid()", "document_versions", "generations"}),
       Statement(399, "policy", "", {"auth.uid()", "usage_stats"}),
       Statement(400, "policy", "", {"auth.uid()", "usage_stats"}),
       Statement(407, "function", "search_exercises()", {}) >>

\* what a database holds before the script runs: a new Supabase project
\* has the auth schema, a plain PostgreSQL database has nothing
Preexisting(platform) ==
    IF platform = "supabase" THEN {"auth.users", "auth.uid()"} ELSE {}

\* no script has been started
NoRun ==
    [ started  |-> FALSE,
      script   |-> << >>,
      platform |-> "",
      stop     |-> FALSE,
      next     |-> 1,
      objects  |-> {},
      failed   |-> {},
      aborted  |-> FALSE ]

\* a script is started on an empty database; the SQL editor and psql with
\* ON_ERROR_STOP stop at the first error, plain psql goes on
StartScript ==
    /\ ~mig.started
    /\ \E script \in {SchemaSql, MigrationSql},
          platform \in {"supabase", "postgres"}, stop \in BOOLEAN :
         mig' = [NoRun EXCEPT !.started = TRUE, !.script = script,
                              !.platform = platform, !.stop = stop,
                              !.objects = Preexisting(platform)]
    /\ UNCHANGED besideMig

\* the next statement is executed: it fails when something it needs does
\* not exist
ExecuteStatement ==
    /\ mig.started /\ ~mig.aborted
    /\ mig.next <= Len(mig.script)
    /\ LET statement == mig.script[mig.next]
       IN mig' = IF statement.needs \subseteq mig.objects
                 THEN [mig EXCEPT
                         !.next = @ + 1,
                         !.objects = IF statement.defines = "" THEN @
                                     ELSE @ \cup {statement.defines}]
                 ELSE [mig EXCEPT
                         !.next = @ + 1,
                         !.failed = @ \cup {statement.line},
                         !.aborted = mig.stop]
    /\ UNCHANGED besideMig

MigNext == StartScript \/ ExecuteStatement

---------------------------------------------------------------------------
(* The theme: the init script of the root layout, and the toggles of the   *)
(* sidebar (part_009) and of the settings page (part_003)                  *)

\* presses of a theme toggle in one behaviour
MaxPresses == 4

ThemePaths == {"/", "/settings"}

\* no document has been loaded; localStorage is empty ("" is no entry)
NoDocument ==
    [ loaded        |-> FALSE,
      path          |-> "/",
      dark          |-> TRUE,
      transitioning |-> FALSE,
      timers        |-> 0,
      stored        |-> "",
      sidebar       |-> TRUE,
      settings      |-> TRUE,
      presses       |-> 0 ]

\* the init script: <html> is rendered with class dark, which is removed
\* when the stored theme is light, or nothing is stored and the system
\* prefers light
themeInit(stored, prefersLight) ==
    ~(stored = "light" \/ (stored = "" /\ prefersLight))

\* the document is loaded or reloaded on a path of the shell: the script
\* runs, the sidebar and (on /settings) the settings page mount and their
\* effects read the class from the DOM; localStorage survives
LoadDocument ==
    \E path \in ThemePaths, prefersLight \in BOOLEAN :
        LET dark == themeInit(theme.stored, prefersLight)
        IN /\ theme' = [NoDocument EXCEPT
                          !.loaded = TRUE, !.path = path, !.dark = dark,
                          !.stored = theme.stored,
                          !.sidebar = dark,
                          !.settings = IF path = "/settings" THEN dark
                                       ELSE TRUE,
                          !.presses = theme.presses]
           /\ UNCHANGED besideTheme

\* client-side navigation: the sidebar stays mounted, the settings page
\* mounts (and reads the class) or unmounts
NavigateTheme ==
    /\ theme.loaded
    /\ \E path \in ThemePaths \ {theme.path} :
         theme' = [theme EXCEPT
                     !.path = path,
                     !.settings = IF path = "/settings" THEN theme.dark
                                  ELSE TRUE]
    /\ UNCHANGED besideTheme

\* toggleTheme of either component, run with the component's own isDark
toggleTheme(t, isDark) ==
    [t EXCEPT !.transitioning = TRUE,
              !.dark = ~isDark,
              !.stored = IF isDark THEN "light" ELSE "dark",
              !.timers = @ + 1,
              !.presses = @ + 1]

\* the toggle in the sidebar footer is pressed
SidebarToggle ==
    /\ theme.loaded /\ theme.presses < MaxPresses
    /\ theme' = [toggleTheme(theme, theme.sidebar) EXCEPT
                   !.sidebar = ~theme.sidebar]
    /\ UNCHANGED besideTheme

\* the toggle of the settings page is pressed
SettingsToggle ==
    /\ theme.loaded /\ theme.presses < MaxPresses
    /\ theme.path = "/settings"
    /\ theme' = [toggleTheme(theme, theme.settings) EXCEPT
                   !.settings = ~theme.settings]
    /\ UNCHANGED besideTheme

\* 250 ms after a press the transition class is removed
TransitionTimerFires ==
    /\ theme.timers > 0
    /\ theme' = [theme EXCEPT !.timers = @ - 1, !.transitioning = FALSE]
    /\ UNCHANGED besideTheme

ThemeNext ==
    \/ LoadDocument
    \/ NavigateTheme
    \/ SidebarToggle
    \/ SettingsToggle
    \/ TransitionTimerFires

---------------------------------------------------------------------------
\* the pages and the database script before they are opened or started
InitPages ==
    /\ up = UpdatePasswordPage
    /\ sh = SharedResourcePage
    /\ bank = ExerciseBankPage
    /\ mig = NoRun
    /\ theme = NoDocument

Init ==
    /\ store = InitialStore
    /\ pc = "idle"
    /\ es = "none"
    /\ cursor = 0
    /\ pending = NoData
    /\ calls = << >>
    /\ job = NoJob
    /\ stream = << >>
    /\ nav = NavStart(TRUE, FALSE)
    /\ db = [rows |-> {}, last |-> NoOp]
    /\ cache = [entries |-> {}, last |-> NoLookup]
    /\ gw = NoCall
    /\ ed = LatexEditor(<<"ok", "ok">>)
    /\ InitPages

Next ==
    \/ SetTopic \/ HandleGenerate \/ PostFails \/ PostOK
    \/ OnStepEvent \/ OnCurrentAgentEvent \/ OnCompleteEvent \/ OnErrorEvent
    \/ GetResultOK \/ GetResultFails
    \/ NewGeneration \/ OpenEditor \/ CloseEditor \/ EditorSave
    \/ Plan \/ Draft \/ MathVerify \/ CompileCheck \/ CompileFix
    \/ QualityPass \/ LayoutPass \/ Cancel

Spec == Init /\ [][Next]_vars

\* the same program with a caller that uses the close function of
\* streamProgress
NextWithClose == Next \/ CloseStream

SpecClose == Init /\ [][NextWithClose]_vars

\* navigation on its own: every deployment (with or without Supabase) and
\* either session state; without Supabase nobody can be signed in
InitNav ==
    /\ \E c, u \in BOOLEAN : (u => c) /\ nav = NavStart(c, u)
    /\ store = InitialStore /\ pc = "idle" /\ es = "none" /\ cursor = 0
    /\ pending = NoData /\ calls = << >> /\ job = NoJob /\ stream = << >>
    /\ db = [rows |-> {}, last |-> NoOp]
    /\ cache = [entries |-> {}, last |-> NoLookup]
    /\ gw = NoCall
    /\ ed = LatexEditor(<<"ok", "ok">>)
    /\ InitPages

SpecNav == InitNav /\ [][NavNext]_vars

\* the database on its own, from the empty schema
SpecDb == Init /\ [][DbNext]_vars

\* the cache on its own, from the empty cache
SpecCache == Init /\ [][Lookup]_vars

\* the gateway on its own
SpecGateway == Init /\ [][GwNext]_vars

\* the editor on its own, mounted on a document that compiles or does not
InitEditor ==
    /\ \E d \in {"ok", "broken"} : ed = LatexEditor(<<"ok", d>>)
    /\ store = InitialStore /\ pc = "idle" /\ es = "none" /\ cursor = 0
    /\ pending = NoData /\ calls = << >> /\ job = NoJob /\ stream = << >>
    /\ nav = NavStart(TRUE, FALSE)
    /\ db = [rows |-> {}, last |-> NoOp]
    /\ cache = [entries |-> {}, last |-> NoLookup]
    /\ gw = NoCall
    /\ InitPages

SpecEditor == InitEditor /\ [][EdNext]_vars

\* the editor's text under typing, snippets and AI suggestions
SpecEditing == InitEditor /\ [][EditingNext]_vars

\* the update-password page on its own
SpecUpdatePassword == Init /\ [][UpNext]_vars

\* the shared-resource page on its own
SpecShared == Init /\ [][ShNext]_vars

\* the exercise bank on its own
SpecBank == Init /\ [][BankNext]_vars

\* the database scripts on their own
SpecScripts == Init /\ [][MigNext]_vars

\* the theme on its own
SpecTheme == Init /\ [][ThemeNext]_vars

---------------------------------------------------------------------------
(* Properties                                                              *)

Range(seq) == {seq[i] : i \in 1..Len(seq)}

IsPrefix(a, b) == Len(a) <= Len(b) /\ a = SubSeq(b, 1, Len(a))

\* the positions of the log written by `agent`
RecordsOf(agent) == {i \in 1..Len(Log) : Log[i].agent = agent}

RepairAgent(node) == IF node = "Draft" THEN "author" ELSE "latex_fixer"

CheckAgent(node) == IF node = "Draft" THEN "math_verifier" ELSE "latex_validator"

CheckStage(node) == IF node = "Draft" THEN "MathVerify" ELSE "CompileCheck"

\* repair invocations of a node (the first draft is not a repair)
RepairsDone(node) ==
    Cardinality({i \in RecordsOf(RepairAgent(node)) : Log[i].retries > 0})

\* runs of the node's check that found an error
FailedChecks(node) ==
    Cardinality({i \in RecordsOf(CheckAgent(node)) : Log[i].error # ""})

HasComplete == \E i \in 1..Len(stream) : stream[i].type = "complete"

\* C2: a finished run is completed or failed, never running or pending: the
\* job whose stream has ended, the terminal event's status, the data held by
\* onComplete, and every result the store holds.
C2_TerminalStatus ==
    /\ HasComplete <=> job.status \in Terminal
    /\ job.stage = "DONE" => job.status = "completed"
    /\ \A i \in 1..Len(stream) :
         stream[i].type = "complete"
           => i = Len(stream) /\ stream[i].data.status = job.status
    /\ pc = "awaitResult" => pending.status \in Terminal
    /\ store.result # Null => store.result.status \in Terminal

C2_Witness ==
    /\ store.result # Null
    /\ store.result.jobId = "job"
    /\ store.result.status = "failed"
    /\ \E i \in 1..Len(stream) : stream[i].type = "complete"

\* C3: a repair is always followed by the check that failed, and a job that
\* completed has a passing run of the check after its last repair of each kind.
C3_RepairRechecked ==
    \A n \in RepairNodes :
      \A i \in RecordsOf(RepairAgent(n)) :
        /\ i < Len(Log) => Log[i + 1].agent = CheckAgent(n)
        /\ (i = Len(Log) /\ job.status = "running") => job.stage = CheckStage(n)
        /\ job.status = "completed"
             => \E k \in RecordsOf(CheckAgent(n)) : k > i /\ Log[k].error = ""

C3_Witness ==
    /\ job.status = "completed"
    /\ RepairsDone("Draft") > 0
    /\ RepairsDone("CompileFix") > 0

Summary(ledger) ==
    LET checks  == Count(ledger, "correct") + Count(ledger, "incorrect")
        correct == Count(ledger, "correct")
    IN [ claimsChecked |-> checks, claimsCorrect |-> correct,
         claimsIncorrect |-> checks - correct, allCorrect |-> checks = correct ]

\* C5: the verification summary held with a document is the verification of
\* that document's current content (stated for the results of completed
\* jobs, the ones the editor can open).
C5_VerdictsCurrent ==
    /\ job.status = "completed" => job.ledger = Verify(job.source)
    /\ (store.result # Null /\ store.result.status = "completed")
         => store.result.mathVerification
              = Summary(Verify(store.result.fullDocument))

\* position of an agent in PIPELINE_ORDER (0: not listed)
Pos(agent) ==
    IF \E k \in 1..Len(PIPELINE_ORDER) : PIPELINE_ORDER[k] = agent
    THEN CHOOSE k \in 1..Len(PIPELINE_ORDER) : PIPELINE_ORDER[k] = agent
    ELSE 0

FirstRun(i) == \A h \in 1..(i - 1) : Log[h].agent # Log[i].agent

\* C6: the stages run in the order of PIPELINE_ORDER: of two listed stages,
\* the one that first ran earlier is the one listed earlier.
C6_PipelineOrder ==
    \A i, j \in 1..Len(Log) :
      (i < j /\ FirstRun(i) /\ FirstRun(j)
         /\ Pos(Log[i].agent) > 0 /\ Pos(Log[j].agent) > 0)
        => Pos(Log[i].agent) < Pos(Log[j].agent)

TerminalCalls == {i \in 1..Len(calls) : calls[i] \in {"onComplete", "onError"}}

\* C7: on one EventSource at most one of onComplete / onError is invoked,
\* it is the last callback invoked, and the EventSource is closed after it.
C7_OneTerminalCallback ==
    /\ Cardinality(TerminalCalls) <= 1
    /\ \A i \in TerminalCalls : i = Len(calls)
    /\ TerminalCalls # {} => es = "closed"

C7_Witness ==
    /\ Len(calls) >= 3
    /\ calls[Len(calls)] = "onComplete"
    /\ "onStep" \in Range(calls)
    /\ job.status \in Terminal

\* C8: a failed result carries a reason and the step log received up to the
\* failure.
C8_FailureCarriesLog ==
    (store.result # Null /\ store.result.status = "failed")
      => /\ store.result.error # ""
         /\ store.result.steps = store.steps

\* C9: once the caller has used the close function of streamProgress, the
\* generation is over: not generating, a failed result with reason cancelled.
C9_CloseIsTerminal ==
    "close" \in Range(calls)
      => /\ ~store.isGenerating
         /\ store.result # Null
         /\ store.result.status = "failed"
         /\ store.result.error = "cancelled"

\* C10 as stated: no step of the program removes or changes a record that
\* is in the log; the log only grows, by one record at its end.
C10_NeverRemoved ==
    [][ /\ IsPrefix(store.steps, store'.steps)
        /\ Len(store'.steps) <= Len(store.steps) + 1 ]_vars

\* C10, amended: within a generation the log is append-only and holds the
\* records dispatched so far, in order; only startGeneration, which begins a
\* new generation, empties it.
C10_AppendOnlyPerGeneration ==
    [][ \/ store'.steps = store.steps
        \/ /\ HasEvent("step")
           /\ cursor' = cursor + 1
           /\ store'.steps =
                Append(store.steps, StepRecord(NextEvent.agent, NextEvent.error,
                                               NextEvent.retries))
        \/ /\ ~store.isGenerating
           /\ store'.isGenerating
           /\ store'.steps = << >> ]_vars

C10_Witness ==
    /\ Len(store.steps) >= 2
    /\ store.steps[1].agent = "pedagogue"
    /\ store.steps[2].agent = "author"
    /\ store.result # Null


---------------------------------------------------------------------------
(* Routing properties (under SpecNav)                                      *)

\* the public paths as the claims list them
ListedPublic ==
    { LOGIN, REGISTER, AUTH_CALLBACK, SHARED, RESET_PASSWORD, UPDATE_PASSWORD }

StartsListed(pathname) == \E p \in ListedPublic : startsWith(pathname, p)

\* C13: with Supabase configured, the middleware answers a request without a
\* session for a path outside the public prefixes with a redirect to /login,
\* and such a request never gets as far as its route or page.
C13_UnauthRedirected ==
    /\ (nav.answer # "none" /\ nav.configured /\ ~nav.askedUser
          /\ ~StartsListed(nav.asked))
         => /\ nav.answer = "redirect"
            /\ nav.pathname = LOGIN
            /\ nav.phase = "request"
    /\ (nav.phase \in {"route", "served"} /\ nav.configured /\ ~nav.user
          /\ matcher(nav.pathname))
         => StartsListed(nav.pathname)

C13_Witness ==
    /\ nav.configured
    /\ nav.answer = "redirect"
    /\ ~nav.askedUser
    /\ nav.asked = SETTINGS
    /\ nav.pathname = LOGIN

\* C19: no redirect loop.  The middleware redirects at most once in a
\* navigation and a pending request always gets an answer; a signed-in user
\* asking for /login or /register ends on /, and nobody is redirected away
\* from /update-password.
C19_NoRedirectLoop ==
    /\ nav.mwRedirects <= 1
    /\ nav.routeRedirects <= 1
    /\ nav.phase = "request" => ENABLED (RunMiddleware \/ SkipMiddleware)
    /\ (nav.answer # "none" /\ nav.askedUser /\ nav.asked \in {LOGIN, REGISTER})
         => nav.answer = "redirect" /\ nav.pathname = ROOT
    /\ (nav.answer # "none" /\ nav.asked = UPDATE_PASSWORD)
         => nav.answer = "next" /\ nav.pathname = UPDATE_PASSWORD
    /\ (nav.phase = "served" /\ nav.startUser /\ nav.start \in {LOGIN, REGISTER})
         => nav.pathname = ROOT /\ nav.mwRedirects = 1
    /\ (nav.phase = "served" /\ nav.start = UPDATE_PASSWORD)
         => nav.pathname = UPDATE_PASSWORD /\ nav.mwRedirects = 0

C19_Witness ==
    /\ nav.phase = "served"
    /\ nav.startUser
    /\ nav.start = LOGIN
    /\ nav.pathname = ROOT
    /\ nav.mwRedirects = 1

\* C20: a page is wrapped in the AppShell exactly when the middleware
\* requires a session for its path.
C20_ShellIffProtected ==
    (nav.phase = "served" /\ matcher(nav.pathname))
      => (nav.shell <=> ~isPublic(nav.pathname))

---------------------------------------------------------------------------
(* Row level security properties (under SpecDb)                            *)

\* the user a row belongs to: the owner of its generation for a document
\* version, the user column otherwise
BelongsTo(row, uid, rows) ==
    IF row.table = "document_versions"
    THEN \E g \in rows : /\ g.table = "generations"
                         /\ g.id = row.generation_id
                         /\ g.user = uid
    ELSE row.user = uid

\* C14: whatever a user reads, inserts, updates or deletes is a row that
\* belongs to that user; in particular no row of another user is updated
\* or deleted.
C14_OwnRowsOnly ==
    /\ db.last.op \in {"select", "update", "delete"}
         => BelongsTo(db.last.old, db.last.uid,
                      db.rows \cup {db.last.old})
    /\ db.last.op \in {"insert", "update"}
         => BelongsTo(db.last.new, db.last.uid, db.rows)

---------------------------------------------------------------------------
(* Cache properties (under SpecCache)                                      *)

\* a hit of the last lookup on entry e
HitOn(e) == cache.last.outcome = "hit" /\ cache.last.entry = e

\* the fields the claim names as not depended on: the difficulty, for the
\* Plan node
Unrelated(node) == IF node = "Plan" THEN {"difficulty"} ELSE {}

\* the last lookup's request and the request of e differ at most in
\* fields the node does not depend on
SameForNode(e) ==
    /\ e.node = cache.last.node
    /\ \A f \in Structured \ Unrelated(e.node) :
         e.request[f] = cache.last.request[f]
    /\ e.request.text = cache.last.request.text

---------------------------------------------------------------------------
(* Gateway properties (under SpecGateway)                                  *)

\* the attempts of the current call
Attempts == SubSeq(gw.log, gw.base + 1, Len(gw.log))

\* C12: the backends are tried in the configured order, each after the
\* failure of the one before; the response is that of the first backend that
\* succeeds and the log shows the failed attempts before it; an error reaches
\* the Engine only after every backend has failed, and only once.
C12_FallbackInOrder ==
    gw.phase # "idle" =>
      /\ Len(Attempts) = gw.tried
      /\ gw.tried <= Len(Order(gw.role))
      /\ \A i \in 1..Len(Attempts) :
           /\ Attempts[i].backend = Order(gw.role)[i]
           /\ Attempts[i].role = gw.role
           /\ i < Len(Attempts) => ~Attempts[i].ok
      /\ gw.phase = "calling"
           => /\ gw.errors = 0 /\ gw.response = ""
              /\ \A i \in 1..Len(Attempts) : ~Attempts[i].ok
      /\ gw.phase = "returned"
           => \/ /\ gw.errors = 0
                 /\ Attempts[gw.tried].ok
                 /\ gw.response = Attempts[gw.tried].backend
              \/ /\ gw.errors = 1
                 /\ gw.response = ""
                 /\ gw.tried = Len(Order(gw.role))
                 /\ \A i \in 1..Len(Attempts) : ~Attempts[i].ok

\* backend A fails and backend B succeeds: B's response, one failed and one
\* succeeded attempt in the log
C12_Witness ==
    /\ gw.phase = "returned"
    /\ gw.role = "author"
    /\ gw.response = "claude"
    /\ Len(Attempts) = 2
    /\ ~Attempts[1].ok /\ Attempts[2].ok

---------------------------------------------------------------------------
(* Home page properties (under Spec)                                       *)

\* C15: a generation leaves the generating state: once handleGenerate and
\* its callbacks have nothing more to run (no request awaited, no open
\* stream), the store is not generating.
C15_LeavesGenerating ==
    (pc = "idle" /\ es # "open") => ~store.isGenerating

\* the views the home page renders
Views ==
    { v \in {"editor", "wizard", "progress", "result"} :
        \/ v = "editor" /\ EditorShown(store)
        \/ v = "wizard" /\ WizardShown(store)
        \/ v = "progress" /\ ProgressShown(store)
        \/ v = "result" /\ ResultShown(store) }

\* C16: the home page shows exactly one view, the one the claim names for the
\* store's state, and the store is never generating while it holds a result.
C16_OneView ==
    /\ Cardinality(Views) = 1
    /\ ~(store.isGenerating /\ store.result # Null)
    /\ store.isGenerating => Views = {"progress"}
    /\ (~store.isGenerating /\ store.result = Null) => Views = {"wizard"}
    /\ (~store.isGenerating /\ store.result # Null)
         => Views = IF store.showLatexEditor /\ store.result.fullDocument # ""
                    THEN {"editor"} ELSE {"result"}

\* the stream broke after steps had arrived: the result view shows the error
C16_Witness ==
    /\ Views = {"result"}
    /\ store.result.error = "Connection lost"
    /\ Len(store.steps) >= 2

\* C18: while there is no result, showLatexEditor is false.
C18_EditorOnlyFromResult ==
    store.result = Null => ~store.showLatexEditor

---------------------------------------------------------------------------
(* Editor properties (under SpecEditor)                                    *)

\* C17: with no timer pending and every compile request answered, the error
\* list is that of the current content and, if the content compiles, the PDF
\* is made from it; and while a request is in flight `compiling` is true.
C17_PreviewIsCurrent ==
    /\ (ed.timers = {} /\ ed.inflight = {} /\ ~ed.lost)
         => /\ ed.errors = compileLatex(ed.content)
            /\ compileLatex(ed.content) = << >> =>
                 ed.pdfBase64 = [shown |-> TRUE, of |-> ed.content]
    /\ ed.inflight # {} => ed.compiling

---------------------------------------------------------------------------
(* C21: on the update-password page the submit button is enabled only      *)
(* after a recovery session has been verified: a PASSWORD_RECOVERY event   *)
(* was received or getSession returned a session.                          *)
C21_ReadyOnlyVerified ==
    (up.mounted /\ ~(up.recovery \/ up.sessionSeen)) =>
        (~up.ready /\ submitDisabled(up))

---------------------------------------------------------------------------
(* C22: on the shared-resource page each backend answer leads to its own   *)
(* state: 401 shows the password prompt, 410 the 'expired' error, 404 the  *)
(* 'not found' error, a successful answer shows the resource and clears    *)
(* the prompt; after every load attempt loading is false.                  *)
C22_EachAnswerOwnState ==
    /\ sh.last = 401 => sh.needsPassword
    /\ sh.last = 410 => sh.error = "Denne delingen har utløpt."
    /\ sh.last = 404 => sh.error = "Delt lenke ikke funnet."
    /\ sh.last = 200 => (sh.resource /\ ~sh.needsPassword)
    /\ sh.last # 0 => ~sh.loading

---------------------------------------------------------------------------
(* C23: in exam-builder mode 'Generer eksamen' exports exactly the         *)
(* exercises of the exam builder list, in list order; the list never       *)
(* holds the same exercise twice, and removing an entry removes only that  *)
(* exercise.                                                               *)
C23_ExamExportsBuilderList ==
    /\ bank.last.op = "exam" =>
         (bank.last.sent = <<"export">> /\ bank.last.ids = bank.examExercises)
    /\ \A i, j \in 1..Len(bank.examExercises) :
         bank.examExercises[i] = bank.examExercises[j] => i = j

(* C24: search in the exercise bank is debounced by 300 ms: a keystroke    *)
(* sends no request, and the timer's expiry sends one request carrying the *)
(* latest query.                                                           *)
C24_SearchDebounced ==
    /\ bank.last.op = "search" => bank.last.sent = << >>
    /\ bank.last.op = "timer" => bank.last.sent = <<bank.searchQuery>>

(* C27: the hints shown under an exercise card are the hints generated     *)
(* for that exercise.                                                      *)
C27_HintsOfSameExercise ==
    \A id \in ExerciseIds : shownHints(bank, id) \in {"", id}

---------------------------------------------------------------------------
C26_AcceptReplacesRequestedRange ==
    [][ (ed.showDiff /\ ~ed'.showDiff /\ ed'.edits = ed.edits + 1
           /\ ~ed.edited)
        => ed'.content =
             substring(ed.content, 0, ed.asked.start) \o ed.diffContent
               \o substring(ed.content, ed.asked.end, Len(ed.content)) ]_vars

---------------------------------------------------------------------------
(* C28: in the pipeline progress view a node shows the green check only    *)
(* when its agent finished without error, a node whose latest recorded     *)
(* step carries an error is shown in the failed/repairing state while the  *)
(* generation is running, and the attempt number of "Forsøk n/3" never     *)
(* exceeds 3.                                                              *)
C28_CheckOnlyWithoutError ==
    ProgressShown(store) =>
      \A k \in 1..Len(PIPELINE_ORDER) :
        LET agentKey == PIPELINE_ORDER[k]
            node == PipelineProgress(store, agentKey)
            found == {i \in 1..Len(store.steps) :
                        store.steps[i].agent = agentKey}
            latest == CHOOSE i \in found : \A j \in found : j <= i
            failed == found # {} /\ store.steps[latest].error # ""
        IN /\ node.icon = "check" => ~failed
           /\ failed => node.icon = "alert"
           /\ node.attempt <= Ceiling

---------------------------------------------------------------------------
---------------------------------------------------------------------------
(* C30: after any sequence of presses on either theme toggle, with the     *)
(* sidebar and the settings page both mounted on /settings, the dark class *)
(* of <html>, the theme stored in localStorage and the state shown by each *)
(* toggle agree.                                                           *)
C30_TogglesAgree ==
    (theme.loaded /\ theme.path = "/settings" /\ theme.presses > 0)
        => /\ theme.stored = (IF theme.dark THEN "dark" ELSE "light")
           /\ theme.sidebar = theme.dark
           /\ theme.settings = theme.dark

=============================================================================
